---- MODULE Spec2Model ----
(***************************************************************************)
(* SBITS (sequential bitmap indexing for time series): a model of sbits.c, *)
(* sbits.h and of the comparator and bitmap encoders of test_sbits.h.      *)
(*                                                                         *)
(* Memory is modelled at the byte level.  The page buffer is one           *)
(* contiguous array of bufferSizeInBlocks * pageSize bytes, as malloc'ed   *)
(* by the caller; frame k starts at offset k * pageSize.  32-bit values    *)
(* are kept as their two's-complement (int32) value, little-endian in      *)
(* memory; an unsigned 32-bit field holds the int32 with the same bits.    *)
(***************************************************************************)
EXTENDS Integers, Sequences, FiniteSets, TLC

(***************************************************************************)
(* Bounds of the model.                                                    *)
(***************************************************************************)
MaxPuts == 6          \* number of sbitsPut calls in one behaviour
MaxLongPuts == 9      \* the same, for the callers that insert until the file wraps
MaxLongQueries == 3   \* queries of the callers that query while they insert that long
MaxFlush == 1         \* number of sbitsFlush calls in one behaviour
MaxQueries == 2       \* number of sbitsGet / iterator calls in one behaviour
MaxYield == 8         \* records one iterator hands back before the caller drops it
MaxEndCalls == 2      \* sbitsNext calls made after the iterator reported its end
MaxLoop == 24         \* iterations granted to a while(1) loop of the code

(***************************************************************************)
(* sbits.h                                                                 *)
(***************************************************************************)
SBITS_USE_INDEX == 1
SBITS_USE_MAX_MIN == 2
SBITS_USE_BMAP == 8

SBITS_USING_INDEX(x) == IF (x \div SBITS_USE_INDEX) % 2 = 1 THEN 1 ELSE 0
SBITS_USING_MAX_MIN(x) == IF (x \div SBITS_USE_MAX_MIN) % 2 = 1 THEN 1 ELSE 0
SBITS_USING_BMAP(x) == IF (x \div SBITS_USE_BMAP) % 2 = 1 THEN 1 ELSE 0

SBITS_COUNT_OFFSET == 4
SBITS_BITMAP_OFFSET == 6
SBITS_MIN_OFFSET == 8
SBITS_IDX_HEADER_SIZE == 16
SBITS_INDEX_WRITE_BUFFER == 2
SBITS_INDEX_READ_BUFFER == 3

\* sizeof(count_t), count_t being uint16_t
SizeofCount == 2
\* sizeof(id_t), id_t being uint32_t
SizeofId == 4

\* (id_t) -1, the initial bufferedPageId, as the int32 with the same bits
NoPage == -1
\* a field of the malloc'ed sbitsState that sbitsInit has not assigned
Undef == -2
\* a byte of the malloc'ed buffer that has not been written
UninitByte == -1

(***************************************************************************)
(* Machine arithmetic                                                      *)
(***************************************************************************)
MaxInt32 == 2147483647

\* C integer division truncates toward zero
TruncDiv(a, b) ==
    IF (a >= 0) = (b > 0) THEN (IF a >= 0 THEN a ELSE -a) \div (IF b > 0 THEN b ELSE -b)
    ELSE -((IF a >= 0 THEN a ELSE -a) \div (IF b > 0 THEN b ELSE -b))

\* a - b in 32 bits, wrapping
Sub32(a, b) ==
    IF a >= 0 /\ b < 0 /\ a > MaxInt32 + b THEN (a - MaxInt32 - 1) - (b + MaxInt32 + 1)
    ELSE IF a < 0 /\ b > 0 /\ a < b - MaxInt32 - 1 THEN (a + MaxInt32 + 1) - (b - MaxInt32 - 1)
    ELSE a - b

\* unsigned 32-bit a < b, on int32 bit patterns
ULess(a, b) ==
    IF (a >= 0) = (b >= 0) THEN a < b ELSE b < 0

\* unsigned 32-bit a / b (b # 0), on int32 bit patterns; the quotient as a bit pattern
UDiv(a, b) ==
    IF b < 0 THEN (IF a < 0 /\ a >= b THEN 1 ELSE 0)
    ELSE IF a >= 0 THEN a \div b
    ELSE LET hi == (a + MaxInt32) + 1
             q == (hi \div b) + (MaxInt32 \div b) + (((hi % b) + (MaxInt32 % b) + 1) \div b)
         IN  q

\* bit j (0 = least significant) of byte x
BitOf(x, j) == (x \div (2 ^ j)) % 2
\* x | (1 << j) on a byte
SetBit(x, j) == IF BitOf(x, j) = 1 THEN x ELSE x + 2 ^ j
\* (x & y) != 0 on bytes
BytesMeet(x, y) == \E j \in 0..7 : BitOf(x, j) = 1 /\ BitOf(y, j) = 1

(***************************************************************************)
(* Memory: a function from byte offsets to bytes                           *)
(***************************************************************************)
\* byte i of the little-endian image of v
ByteOf(v, i) == IF i >= 4 THEN 0 ELSE (v \div (256 ^ i)) % 256

\* memcpy(mem + off, &v, n), byte i and after
RECURSIVE StoreFrom(_, _, _, _, _)
StoreFrom(mem, off, v, n, i) ==
    IF i >= n THEN mem ELSE StoreFrom([mem EXCEPT ![off + i] = ByteOf(v, i)], off, v, n, i + 1)

\* memcpy(mem + off, &v, n)
Store(mem, off, v, n) == StoreFrom(mem, off, v, n, 0)

\* memcpy(mem + dst, mem + src, n), byte i and after
RECURSIVE CopyFrom(_, _, _, _, _)
CopyFrom(mem, dst, src, n, i) ==
    IF i >= n THEN mem ELSE CopyFrom([mem EXCEPT ![dst + i] = mem[src + i]], dst, src, n, i + 1)

\* memcpy(mem + dst, mem + src, n), the two not overlapping
Copy(mem, dst, src, n) == CopyFrom(mem, dst, src, n, 0)

\* *((int32_t*) (mem + off))
Load32(mem, off) ==
    mem[off] + 256 * mem[off + 1] + 65536 * mem[off + 2]
      + 16777216 * (IF mem[off + 3] >= 128 THEN mem[off + 3] - 256 ELSE mem[off + 3])

\* *((uint16_t*) (mem + off))
Load16(mem, off) == mem[off] + 256 * mem[off + 1]

\* *((int16_t*) (mem + off))
Load16s(mem, off) ==
    IF Load16(mem, off) >= 32768 THEN Load16(mem, off) - 65536 ELSE Load16(mem, off)

SBITS_GET_COUNT(mem, x) == Load16(mem, x + SBITS_COUNT_OFFSET)
SBITS_INC_COUNT(mem, x) ==
    Store(mem, x + SBITS_COUNT_OFFSET, (SBITS_GET_COUNT(mem, x) + 1) % 65536, SizeofCount)
SBITS_GET_BITMAP(x) == x + SBITS_BITMAP_OFFSET
SBITS_GET_MIN_KEY(x, y) == x + SBITS_MIN_OFFSET
SBITS_GET_MAX_KEY(x, y) == x + SBITS_MIN_OFFSET + y.keySize
SBITS_GET_MIN_DATA(x, y) == x + SBITS_MIN_OFFSET + y.keySize * 2
SBITS_GET_MAX_DATA(x, y) == x + SBITS_MIN_OFFSET + y.keySize * 2 + y.dataSize

\* the pageSize bytes of mem that start at off, as a page of the file
PageAt(mem, off, pageSize) == [a \in 0..(pageSize - 1) |-> mem[off + a]]

\* fread(mem + off, pageSize, 1, fp) of a stored page
LoadPage(mem, off, page, pageSize) ==
    [a \in DOMAIN mem |-> IF a >= off /\ a < off + pageSize THEN page[a - off] ELSE mem[a]]

(***************************************************************************)
(* test_sbits.h: the comparator and the bitmap encoders the tests install  *)
(***************************************************************************)
\* (int16_t) v
Int16Of(v) == ((v + 32768) % 65536) - 32768

\* x & y on bytes
AndByte(x, y) ==
    LET b(j) == IF BitOf(x, j) = 1 /\ BitOf(y, j) = 1 THEN 2 ^ j ELSE 0
    IN  b(0) + b(1) + b(2) + b(3) + b(4) + b(5) + b(6) + b(7)

\* (int8_t) x for a byte x
Int8Of(x) == IF x >= 128 THEN x - 256 ELSE x

\* the bit (0 = least significant) of byte 0 that the 8-bucket encoder sets
Int8BucketBit(val) ==
    IF val < 10 THEN 7 ELSE IF val < 20 THEN 6 ELSE IF val < 30 THEN 5
    ELSE IF val < 40 THEN 4 ELSE IF val < 50 THEN 3 ELSE IF val < 60 THEN 2
    ELSE IF val < 100 THEN 1 ELSE 0

updateBitmapInt8Bucket(data, mem, bm) ==
    [mem EXCEPT ![bm] = SetBit(@, Int8BucketBit(Int16Of(data)))]

\* the while loop of updateBitmapInt16: the number of halvings of num
RECURSIVE Int16Halvings(_, _, _)
Int16Halvings(val, current, n) ==
    IF val > current THEN Int16Halvings(val, current + (100 \div 15), n + 1) ELSE n

updateBitmapInt16(data, mem, bm) ==
    LET n == Int16Halvings(data, 100 \div 15, 0)
        \* num = 32768 >> n, and 1 when that is 0; as a bit of the uint16
        bit == IF n > 15 THEN 0 ELSE 15 - n
    IN  [mem EXCEPT ![bm + (bit \div 8)] = SetBit(@, bit % 8)]

\* the while loop of updateBitmapInt64: the final count
RECURSIVE Int64Count(_, _, _)
Int64Count(val, current, count) ==
    IF val > current /\ count < 63 THEN Int64Count(val, current + 10, count + 1) ELSE count

updateBitmapInt64(data, mem, bm) ==
    LET count == Int64Count(Int16Of(data), 320, 0)
        offset == count \div 8
    IN  [mem EXCEPT ![bm + offset] = SetBit(@, 7 - (count % 8))]

\* state->updateBitmap(data, bm)
updateBitmap(y, data, mem, bm) ==
    IF y.updateBitmap = "Int8Bucket" THEN updateBitmapInt8Bucket(data, mem, bm)
    ELSE IF y.updateBitmap = "Int16" THEN updateBitmapInt16(data, mem, bm)
    ELSE updateBitmapInt64(data, mem, bm)

\* eight zero bytes: the local tmpbm of the inBitmap functions
ZeroBitmap == [a \in 0..7 |-> 0]

\* inBitmapInt8Bucket, inBitmapInt16, inBitmapInt64: each returns, as int8_t, the
\* AND of the value's bitmap and *bmval, that is its least significant byte
inBitmap(y, data, mem, bm) ==
    Int8Of(AndByte(updateBitmap(y, data, ZeroBitmap, 0)[0], mem[bm]))

int32Comparator(a, b) ==
    LET result == Sub32(a, b)
    IN  IF result < 0 THEN -1 ELSE IF result > 0 THEN 1 ELSE 0

(***************************************************************************)
(* sbits.c                                                                 *)
(***************************************************************************)
initBufferPage(mem, y, pageNum) ==
    LET buf == pageNum * y.pageSize
        minK == SBITS_GET_MIN_KEY(buf, y)
        minD == SBITS_GET_MIN_DATA(buf, y)
    IN  [a \in DOMAIN mem |->
            IF a >= minD /\ a < minD + y.dataSize THEN 1
            ELSE IF a >= minK /\ a < minK + y.keySize THEN 1
            ELSE IF a >= buf /\ a < buf + y.pageSize THEN 0
            ELSE mem[a]]

\* sbitsGetMinKey, sbitsGetMaxKey: the address of the first and of the last record
sbitsGetMinKey(y, buf) == buf + y.headerSize
sbitsGetMaxKey(y, mem, buf) ==
    buf + y.headerSize + (SBITS_GET_COUNT(mem, buf) - 1) * y.recordSize

HeaderSize(c) ==
    6 + c.bitmapSize
      + (IF SBITS_USING_MAX_MIN(c.parameters) = 1 THEN c.keySize * 2 + c.dataSize * 2 ELSE 0)

\* the malloc'ed buffer before sbitsInit
RawBuffer(c) == [a \in 0..(c.bufferSizeInBlocks * c.pageSize - 1) |-> UninitByte]

\* RegionTooSmall with the index left out of the count
RegionTooSmallNoIndex(c) ==
    (c.endAddress - c.startAddress) \div c.pageSize < 2 * c.eraseSizeInPages

\* sbitsInit, lines 162-168: the region is too small for the engine
RegionTooSmall(c) ==
    (c.endAddress - c.startAddress) \div c.pageSize
        < (SBITS_USING_INDEX(c.parameters) * 2 + 2) * c.eraseSizeInPages

\* sbitsInit: the status, the state structure and the buffer it leaves.  c is the
\* structure as the caller filled it in, with what fopen will answer for the two files.
sbitsInit(c) ==
    LET recordSize == c.keySize + c.dataSize
        headerSize == HeaderSize(c)
        numPages == (c.endAddress - c.startAddress) \div c.pageSize
        y0 == [pageSize |-> c.pageSize, keySize |-> c.keySize, dataSize |-> c.dataSize,
               bitmapSize |-> c.bitmapSize, parameters |-> c.parameters,
               bufferSizeInBlocks |-> c.bufferSizeInBlocks,
               startAddress |-> c.startAddress, endAddress |-> c.endAddress,
               eraseSizeInPages |-> c.eraseSizeInPages, updateBitmap |-> c.updateBitmap,
               recordSize |-> recordSize, headerSize |-> headerSize,
               file |-> FALSE, indexFile |-> FALSE,
               nextPageId |-> 0, nextPageWriteId |-> 0, wrappedMemory |-> 0,
               minKey |-> 0, bufferedPageId |-> NoPage, bufferedIndexPageId |-> NoPage,
               maxRecordsPerPage |-> (c.pageSize - headerSize) \div recordSize,
               numReads |-> 0, numWrites |-> 0, bufferHits |-> 0,
               numIdxReads |-> 0, numIdxWrites |-> 0,
               startDataPage |-> Undef, endDataPage |-> Undef, firstDataPage |-> Undef,
               firstDataPageId |-> Undef, erasedEndPage |-> Undef, avgKeyDiff |-> Undef,
               maxIdxRecordsPerPage |-> Undef, nextIdxPageId |-> Undef,
               nextIdxPageWriteId |-> Undef, startIdxPage |-> Undef, endIdxPage |-> Undef,
               firstIdxPage |-> Undef, erasedEndIdxPage |-> Undef,
               wrappedIdxMemory |-> Undef]
        mem0 == initBufferPage(RawBuffer(c), y0, 0)
        y1 == [y0 EXCEPT !.startDataPage = 0, !.endDataPage = c.endAddress \div c.pageSize,
                         !.firstDataPage = 0, !.firstDataPageId = 0, !.erasedEndPage = 0,
                         !.avgKeyDiff = 1, !.file = c.openData]
        numIdx0 == numPages \div 100
        numIdxPages == IF numIdx0 < c.eraseSizeInPages * 2 THEN c.eraseSizeInPages * 2
                       ELSE ((numIdx0 \div c.eraseSizeInPages) + 1) * c.eraseSizeInPages
        idxbuf == c.pageSize * SBITS_INDEX_WRITE_BUFFER
        y2 == [y1 EXCEPT !.indexFile = TRUE,
                         !.maxIdxRecordsPerPage = (c.pageSize - 16) \div SizeofCount,
                         !.nextIdxPageId = 0, !.nextIdxPageWriteId = 0,
                         !.endIdxPage = y1.endDataPage,
                         !.endDataPage = y1.endDataPage - numIdxPages,
                         !.startIdxPage = (y1.endDataPage - numIdxPages) + 1,
                         !.firstIdxPage = 0, !.erasedEndIdxPage = 0,
                         !.wrappedIdxMemory = 0]
    IN  IF RegionTooSmall(c)
        THEN [ret |-> -1, state |-> y0, buffer |-> mem0]
        ELSE IF ~c.openData
        THEN [ret |-> -1, state |-> y1, buffer |-> mem0]
        ELSE IF SBITS_USING_INDEX(c.parameters) = 0
        THEN [ret |-> 0, state |-> y1, buffer |-> mem0]
        ELSE IF c.bufferSizeInBlocks < 4
        THEN [ret |-> 0, state |-> [y1 EXCEPT !.parameters = @ - SBITS_USE_INDEX],
              buffer |-> mem0]
        ELSE IF ~c.openIndex
        THEN [ret |-> -1, state |-> y1, buffer |-> mem0]
        ELSE [ret |-> 0, state |-> y2,
              buffer |-> Store(initBufferPage(mem0, y1, SBITS_INDEX_WRITE_BUFFER),
                               idxbuf + 8, y1.nextPageId, SizeofId)]

\* fseek(fp, slot * pageSize, SEEK_SET); fwrite(page): the file as the sequence of its
\* pages, page p at index p + 1 (a seek past the end leaves zero-filled pages between)
WritePageAt(f, slot, page, zero) ==
    IF slot < Len(f) THEN [f EXCEPT ![slot + 1] = page]
    ELSE [i \in 1..(slot + 1) |-> IF i <= Len(f) THEN f[i] ELSE IF i = slot + 1 THEN page ELSE zero]

ZeroPage(y) == [a \in 0..(y.pageSize - 1) |-> 0]

\* writePage, lines 761-775: the erase ahead of the write position
writePageErase(y) ==
    LET erase == y.eraseSizeInPages
        ee == IF y.erasedEndPage # 0 THEN y.erasedEndPage + erase
              ELSE y.erasedEndPage + (erase - 1)
    IN  IF ULess(y.nextPageWriteId, y.erasedEndPage)
           \/ ~ULess(y.nextPageWriteId + erase, y.endDataPage)
        THEN y
        ELSE IF y.wrappedMemory # 0
        THEN [y EXCEPT !.erasedEndPage = ee, !.firstDataPage = ee + 1,
                       !.firstDataPageId = @ + erase,
                       !.minKey = @ + erase * y.avgKeyDiff * y.maxRecordsPerPage]
        ELSE [y EXCEPT !.erasedEndPage = ee]

\* writePageWrap with nextPageWriteId left at the end of the data pages
writePageWrapPastEnd(y) ==
    LET erase == y.eraseSizeInPages
    IN  IF ULess(y.nextPageWriteId, y.endDataPage) THEN y
        ELSE [y EXCEPT !.firstDataPageId = @ + erase,
                       !.erasedEndPage = (y.startDataPage + erase) - 1,
                       !.firstDataPage = ((y.startDataPage + erase) - 1) + 1,
                       !.wrappedMemory = 1,
                       !.minKey = @ + erase * y.avgKeyDiff * y.maxRecordsPerPage]

\* writePageWrap with firstDataPageId left where it was
writePageWrapKeepFirstId(y) ==
    LET erase == y.eraseSizeInPages
    IN  IF ULess(y.nextPageWriteId, y.endDataPage) THEN y
        ELSE [y EXCEPT !.erasedEndPage = (y.startDataPage + erase) - 1,
                       !.firstDataPage = ((y.startDataPage + erase) - 1) + 1,
                       !.wrappedMemory = 1,
                       !.nextPageWriteId = y.startDataPage,
                       !.minKey = @ + erase * y.avgKeyDiff * y.maxRecordsPerPage]

\* writePage, lines 777-795: the wrap to the start of the data pages
writePageWrap(y) ==
    LET erase == y.eraseSizeInPages
    IN  IF ULess(y.nextPageWriteId, y.endDataPage) THEN y
        ELSE [y EXCEPT !.firstDataPageId = @ + erase,
                       !.erasedEndPage = (y.startDataPage + erase) - 1,
                       !.firstDataPage = ((y.startDataPage + erase) - 1) + 1,
                       !.wrappedMemory = 1,
                       !.nextPageWriteId = y.startDataPage,
                       !.minKey = @ + erase * y.avgKeyDiff * y.maxRecordsPerPage]

\* writePage, lines 797-804: the page mem holds at b goes to slot nextPageWriteId.
\* The result of fwrite is not looked at: on a storage that refuses the write the
\* file keeps what it held and the state moves on all the same.
writePageOut(e, y, mem, b) ==
    [e EXCEPT !.state = [y EXCEPT !.nextPageWriteId = @ + 1, !.numWrites = @ + 1],
              !.buffer = mem,
              !.file = IF e.writable
                       THEN WritePageAt(@, y.nextPageWriteId, PageAt(mem, b, y.pageSize),
                                        ZeroPage(y))
                       ELSE @]

\* writePage with the increment of nextPageId left out
writePageSameId(e, b) ==
    IF ~e.state.file THEN [e |-> e, ret |-> -1]
    ELSE [e |-> writePageOut(e, writePageWrap(writePageErase(e.state)),
                             Store(e.buffer, b, e.state.nextPageId, SizeofId), b),
          ret |-> e.state.nextPageId]

\* writePage(state, state->buffer + b): e is the engine (state, buffer, file, indexFile)
writePage(e, b) ==
    IF ~e.state.file THEN [e |-> e, ret |-> -1]
    ELSE [e |-> writePageOut(e,
                    writePageWrap(writePageErase([e.state EXCEPT !.nextPageId = @ + 1])),
                    Store(e.buffer, b, e.state.nextPageId, SizeofId), b),
          ret |-> e.state.nextPageId]

\* writeIndexPage, lines 830-844: the erase ahead of the write position
writeIndexPageErase(y) ==
    LET erase == y.eraseSizeInPages
        ee == IF y.erasedEndIdxPage # 0 THEN y.erasedEndIdxPage + erase
              ELSE y.erasedEndIdxPage + (erase - 1)
    IN  IF ULess(y.nextIdxPageWriteId, y.erasedEndIdxPage)
           \/ ~ULess(y.nextIdxPageWriteId + erase, (y.endIdxPage - y.startIdxPage) + 1)
        THEN y
        ELSE IF y.wrappedIdxMemory # 0
        THEN [y EXCEPT !.erasedEndIdxPage = ee, !.firstIdxPage = ee + 1]
        ELSE [y EXCEPT !.erasedEndIdxPage = ee]

\* writeIndexPage, lines 846-859: the wrap to the start of the index pages
writeIndexPageWrap(y) ==
    LET erase == y.eraseSizeInPages
    IN  IF ULess(y.nextIdxPageWriteId, (y.endIdxPage - y.startIdxPage) + 1) THEN y
        ELSE [y EXCEPT !.erasedEndIdxPage = (0 + erase) - 1,
                       !.firstIdxPage = ((0 + erase) - 1) + 1,
                       !.wrappedIdxMemory = 1,
                       !.nextIdxPageWriteId = 0]

\* writeIndexPage, lines 861-868: the page goes to slot nextIdxPageWriteId
writeIndexPageOut(e, y, mem, b) ==
    [e EXCEPT !.state = [y EXCEPT !.nextIdxPageWriteId = @ + 1, !.numIdxWrites = @ + 1],
              !.buffer = mem,
              !.indexFile = IF e.writable
                            THEN WritePageAt(@, y.nextIdxPageWriteId,
                                             PageAt(mem, b, y.pageSize), ZeroPage(y))
                            ELSE @]

\* writeIndexPage(state, state->buffer + b)
writeIndexPage(e, b) ==
    IF ~e.state.indexFile THEN [e |-> e, ret |-> -1]
    ELSE [e |-> writeIndexPageOut(e,
                    writeIndexPageWrap(writeIndexPageErase(
                        [e.state EXCEPT !.nextIdxPageId = @ + 1])),
                    Store(e.buffer, b, e.state.nextIdxPageId, SizeofId), b),
          ret |-> e.state.nextIdxPageId]

\* the read of state->nextIdxPageWriteId: a field sbitsInit leaves unassigned when
\* the index is off holds whatever the allocation held, u, from then on
ReadNextIdxPageWriteId(y, u) ==
    IF y.nextIdxPageWriteId = Undef THEN [y EXCEPT !.nextIdxPageWriteId = u] ELSE y

\* sbitsPut, lines 272-278: the index write frame starts a new page, for pageNum on
PutIndexNewPage(w, pageNum) ==
    [w EXCEPT !.buffer = Store(initBufferPage(@, w.state, SBITS_INDEX_WRITE_BUFFER),
                               SBITS_GET_MIN_KEY(w.state.pageSize * SBITS_INDEX_WRITE_BUFFER,
                                                 w.state),
                               pageNum, SizeofId)]

\* sbitsPut, lines 281-285 (sbitsFlush, lines 583-587): the count_t at the head of the
\* write buffer's bitmap becomes entry idxcount of the index write frame
PutIndexBitmap(e, idxcount) ==
    [e EXCEPT !.buffer =
        Copy(SBITS_INC_COUNT(@, e.state.pageSize * SBITS_INDEX_WRITE_BUFFER),
             e.state.pageSize * SBITS_INDEX_WRITE_BUFFER + SBITS_IDX_HEADER_SIZE
               + SizeofCount * idxcount,
             SBITS_GET_BITMAP(0), SizeofCount)]

\* sbitsPut, lines 264-286: the index entry of the data page just written
PutIndexEntry(e, pageNum) ==
    LET buf == e.state.pageSize * SBITS_INDEX_WRITE_BUFFER
    IN  IF SBITS_GET_COUNT(e.buffer, buf) >= e.state.maxIdxRecordsPerPage
        THEN PutIndexBitmap(PutIndexNewPage(writeIndexPage(e, buf).e, pageNum), 0)
        ELSE PutIndexBitmap(e, SBITS_GET_COUNT(e.buffer, buf))

\* sbitsPut, lines 289-297: the estimate, y being the state with numBlocks' fields read
AvgKeyDiffOf(e, y, wrappedCase) ==
    LET numBlocks0 == IF wrappedCase
                      THEN ((y.endDataPage - y.firstDataPage) + 1) + y.nextIdxPageWriteId
                      ELSE y.nextPageWriteId - 1
        numBlocks == IF numBlocks0 = 0 THEN 1 ELSE numBlocks0
    IN  [e EXCEPT !.state =
            [y EXCEPT !.avgKeyDiff =
                TruncDiv(TruncDiv(Sub32(Load32(e.buffer, sbitsGetMaxKey(y, e.buffer, 0)),
                                        y.minKey),
                                  numBlocks),
                         y.maxRecordsPerPage - 1)]]

\* sbitsPut, lines 288-298: the estimate of the average key difference
UpdateAvgKeyDiff(e, u) ==
    IF ULess(e.state.nextPageWriteId, e.state.firstDataPage)
    THEN AvgKeyDiffOf(e, ReadNextIdxPageWriteId(e.state, u), TRUE)
    ELSE AvgKeyDiffOf(e, e.state, FALSE)

\* if (state->compareData(data, ptr) < 0) memcpy(ptr, data, n), ptr being mem + off
StoreIfLess(mem, off, data, n) ==
    IF int32Comparator(data, Load32(mem, off)) < 0 THEN Store(mem, off, data, n) ELSE mem

\* if (state->compareData(data, ptr) > 0) memcpy(ptr, data, n), ptr being mem + off
StoreIfGreater(mem, off, data, n) ==
    IF int32Comparator(data, Load32(mem, off)) > 0 THEN Store(mem, off, data, n) ELSE mem

\* sbitsPut, lines 313-341: the min/max summary of the header; count is the number of
\* records the page held before this one
UpdateMinMax(mem, y, count, key, data) ==
    IF SBITS_USING_MAX_MIN(y.parameters) = 0 THEN mem
    ELSE IF count # 0
    THEN StoreIfGreater(
             StoreIfLess(Store(mem, SBITS_GET_MAX_KEY(0, y), key, y.keySize),
                         SBITS_GET_MIN_DATA(0, y), data, y.dataSize),
             SBITS_GET_MAX_DATA(0, y), data, y.dataSize)
    ELSE Store(Store(Store(Store(mem, SBITS_GET_MIN_KEY(0, y), key, y.keySize),
                           SBITS_GET_MAX_KEY(0, y), key, y.keySize),
                     SBITS_GET_MIN_DATA(0, y), data, y.dataSize),
               SBITS_GET_MAX_DATA(0, y), data, y.dataSize)

\* sbitsPut, lines 343-347: the bitmap of the header
PutBitmap(mem, y, data) ==
    IF SBITS_USING_BMAP(y.parameters) = 0 THEN mem
    ELSE updateBitmap(y, data, mem, SBITS_GET_BITMAP(0))

\* sbitsPut, lines 251-310: the full write buffer goes to the file; w is what
\* writePage left and returned
PutNewPage(w, u) ==
    LET e1 == UpdateAvgKeyDiff(IF w.e.state.indexFile THEN PutIndexEntry(w.e, w.ret)
                               ELSE w.e, u)
    IN  [e1 EXCEPT !.buffer = initBufferPage(@, e1.state, 0)]

\* sbitsPut, lines 305-349: the record goes to slot count of the write buffer
PutRecord(e, count, key, data) ==
    LET y == e.state
        rec == y.recordSize * count + y.headerSize
    IN  [e EXCEPT !.buffer =
            PutBitmap(
                UpdateMinMax(
                    SBITS_INC_COUNT(Store(Store(@, rec, key, y.keySize),
                                          rec + y.keySize, data, y.dataSize), 0),
                    y, count, key, data),
                y, data)]

\* sbitsPut that sends the write buffer out one record early
sbitsPutEarly(e, key, data, u) ==
    [e |-> IF SBITS_GET_COUNT(e.buffer, 0) >= e.state.maxRecordsPerPage - 1
           THEN PutRecord(PutNewPage(writePage(e, 0), u), 0, key, data)
           ELSE PutRecord(e, SBITS_GET_COUNT(e.buffer, 0), key, data),
     ret |-> 0]

\* sbitsPut(state, &key, &data): the engine it leaves and its status
sbitsPut(e, key, data, u) ==
    [e |-> IF SBITS_GET_COUNT(e.buffer, 0) >= e.state.maxRecordsPerPage
           THEN PutRecord(PutNewPage(writePage(e, 0), u), 0, key, data)
           ELSE PutRecord(e, SBITS_GET_COUNT(e.buffer, 0), key, data),
     ret |-> 0]

\* sbitsFlush, lines 579-593: the index entry of the page, and the index page written
FlushIndex(w) ==
    LET buf == w.state.pageSize * SBITS_INDEX_WRITE_BUFFER
        wi == writeIndexPage(PutIndexBitmap(w, SBITS_GET_COUNT(w.buffer, buf)), buf).e
    IN  [wi EXCEPT !.buffer = initBufferPage(@, wi.state, SBITS_INDEX_WRITE_BUFFER)]

\* sbitsFlush, lines 579-598: after writePage
FlushAfterWrite(w) ==
    LET e1 == IF w.state.indexFile THEN FlushIndex(w) ELSE w
    IN  [e1 EXCEPT !.buffer = initBufferPage(@, e1.state, 0)]

\* sbitsFlush(state)
sbitsFlush(e) == [e |-> FlushAfterWrite(writePage(e, 0).e), ret |-> 0]

\* what the malloc'ed read frame can hold before the first page is read into it:
\* zeros (g = 0), the image of a page with one record (g = 1), or bytes whose count
\* field is above every record number (g = 2)
GarbagePage(y, g) ==
    IF g = 0 THEN ZeroPage(y)
    ELSE IF g = 2 THEN Store(ZeroPage(y), SBITS_COUNT_OFFSET, 65535, SizeofCount)
    ELSE Store(Store(Store(ZeroPage(y), SBITS_COUNT_OFFSET, 1, SizeofCount),
                     y.headerSize, 1, y.keySize),
               y.headerSize + y.keySize, 77, y.dataSize)

\* the first read of the data-read frame fixes the bytes it held
ResolveReadFrame(mem, y, g) ==
    IF mem[y.pageSize] = UninitByte
    THEN LoadPage(mem, y.pageSize, GarbagePage(y, g), y.pageSize) ELSE mem

\* readPage with the increment of bufferHits left out
readPageNoHitCount(e, pageNum) ==
    LET y == e.state
    IN  IF pageNum = y.bufferedPageId
        THEN [e |-> e, ret |-> 0]
        ELSE IF ~e.readable \/ pageNum < 0 \/ pageNum >= Len(e.file)
        THEN [e |-> e, ret |-> 1]
        ELSE [e |-> [e EXCEPT !.state.numReads = @ + 1,
                              !.state.bufferedPageId = pageNum,
                              !.buffer = LoadPage(@, y.pageSize, e.file[pageNum + 1], y.pageSize)],
              ret |-> 0]

\* readPage(state, pageNum): fread fails on a storage that refuses the read and on a
\* page the file does not hold
readPage(e, pageNum) ==
    LET y == e.state
    IN  IF pageNum = y.bufferedPageId
        THEN [e |-> [e EXCEPT !.state.bufferHits = @ + 1], ret |-> 0]
        ELSE IF ~e.readable \/ pageNum < 0 \/ pageNum >= Len(e.file)
        THEN [e |-> e, ret |-> 1]
        ELSE [e |-> [e EXCEPT !.state.numReads = @ + 1,
                              !.state.bufferedPageId = pageNum,
                              !.buffer = LoadPage(@, y.pageSize, e.file[pageNum + 1], y.pageSize)],
              ret |-> 0]

\* readIndexPage(state, pageNum)
readIndexPage(e, pageNum) ==
    LET y == e.state
    IN  IF pageNum = y.bufferedIndexPageId
        THEN [e |-> [e EXCEPT !.state.bufferHits = @ + 1], ret |-> 0]
        ELSE IF ~e.readable \/ pageNum < 0 \/ pageNum >= Len(e.indexFile)
        THEN [e |-> e, ret |-> 1]
        ELSE [e |-> [e EXCEPT !.state.numIdxReads = @ + 1,
                              !.state.bufferedIndexPageId = pageNum,
                              !.buffer = LoadPage(@, y.pageSize * SBITS_INDEX_READ_BUFFER,
                                                  e.indexFile[pageNum + 1], y.pageSize)],
              ret |-> 0]

\* the while loop of sbitsSearchNode
RECURSIVE SearchLoop(_, _, _, _, _, _)
SearchLoop(y, mem, buffer, key, first, last) ==
    LET middle == TruncDiv(first + last, 2)
        compare == int32Comparator(Load32(mem, buffer + y.headerSize + y.recordSize * middle), key)
    IN  IF first > last THEN [found |-> FALSE, middle |-> middle]
        ELSE IF compare < 0 THEN SearchLoop(y, mem, buffer, key, middle + 1, last)
        ELSE IF compare = 0 THEN [found |-> TRUE, middle |-> middle]
        ELSE SearchLoop(y, mem, buffer, key, first, middle - 1)

\* sbitsSearchNode(state, buffer, key, pageId, range): the record number, or (id_t) -1
sbitsSearchNode(y, mem, buffer, key, range) ==
    LET r == SearchLoop(y, mem, buffer, key, 0, SBITS_GET_COUNT(mem, buffer) - 1)
    IN  IF r.found \/ range # 0 THEN r.middle ELSE -1

\* sbitsGet, lines 447-449: the physical page of logical page pageId
PhysPageId(y, pageId) ==
    IF ~ULess(pageId + y.firstDataPage, y.endDataPage)
    THEN (pageId + y.firstDataPage) - y.endDataPage
    ELSE pageId + y.firstDataPage

\* the while (1) loop of sbitsGet (interpolated search): "page" when it breaks with
\* the page to search in the read frame, "readfail" when readPage fails, "divzero"
\* when a divisor is 0, "hang" when it is still running after fuel iterations
RECURSIVE GetLoop(_, _, _, _, _, _)
RECURSIVE GetPage(_, _, _, _, _, _)
GetLoop(e, key, pageId, first, last, fuel) ==
    IF fuel = 0 THEN [e |-> e, end |-> "hang"]
    ELSE GetPage(readPage(e, PhysPageId(e.state, pageId)), key, pageId, first, last, fuel)

\* sbitsGet, lines 452-483: r is what readPage left and returned
GetPage(r, key, pageId, first, last, fuel) ==
    LET y == r.e.state
        buf == y.pageSize
        minKey == Load32(r.e.buffer, sbitsGetMinKey(y, buf))
        maxKey == Load32(r.e.buffer, sbitsGetMaxKey(y, r.e.buffer, buf))
        below == (TruncDiv(TruncDiv(Sub32(key, minKey), y.maxRecordsPerPage), y.avgKeyDiff)) - 1
        offB == IF pageId + below < first THEN first - pageId ELSE below
        above == UDiv(Sub32(key, maxKey), y.maxRecordsPerPage * y.avgKeyDiff) + 1
        offA == IF pageId + above > last THEN last - pageId ELSE above
    IN  IF r.ret # 0 THEN [e |-> r.e, end |-> "readfail"]
        ELSE IF first >= last THEN [e |-> r.e, end |-> "page"]
        ELSE IF int32Comparator(key, minKey) < 0
        THEN IF y.avgKeyDiff = 0 THEN [e |-> r.e, end |-> "divzero"]
             ELSE GetLoop(r.e, key, pageId + offB, first, pageId - 1, fuel - 1)
        ELSE IF int32Comparator(key, maxKey) > 0
        THEN IF y.maxRecordsPerPage * y.avgKeyDiff = 0 THEN [e |-> r.e, end |-> "divzero"]
             ELSE GetLoop(r.e, key, pageId + offA, pageId + 1, last, fuel - 1)
        ELSE [e |-> r.e, end |-> "page"]

\* sbitsGet, lines 486-522: the search of the page the loop ended on; l is what the
\* loop left
GetRecord(l, key, old, nextId) ==
    IF l.end # "page"
    THEN [e |-> l.e, ret |-> -1, data |-> old, end |-> l.end]
    ELSE IF nextId # -1
    THEN [e |-> l.e, ret |-> 0, end |-> "return",
          data |-> Load32(l.e.buffer, l.e.state.pageSize + l.e.state.headerSize
                                        + l.e.state.recordSize * nextId + l.e.state.keySize)]
    ELSE [e |-> l.e, ret |-> -1, data |-> old, end |-> "return"]

GetSearch(l, key, old) ==
    GetRecord(l, key, old, sbitsSearchNode(l.e.state, l.e.buffer, l.e.state.pageSize, key, 0))

\* sbitsGet, lines 413-445: the first guess; e holds the state with last's fields read
GetFirst(e, key, old, wrappedCase) ==
    LET y == e.state
        last == IF wrappedCase
                THEN ((y.endDataPage - y.firstDataPage) + 1) + y.nextIdxPageWriteId
                ELSE y.nextPageWriteId - 1
        below == int32Comparator(key, y.minKey) < 0
        divisor == y.maxRecordsPerPage * y.avgKeyDiff
        guess == UDiv(Sub32(key, y.minKey), divisor)
        pageId == IF below THEN 0
                  ELSE IF ULess(y.endDataPage, guess)
                          \/ (y.wrappedMemory = 0 /\ ~ULess(guess, y.nextPageWriteId))
                  THEN y.nextPageWriteId - 1
                  ELSE guess
    IN  IF (~below) /\ divisor = 0
        THEN [e |-> e, ret |-> -1, data |-> old, end |-> "divzero"]
        ELSE GetSearch(GetLoop(e, key, pageId, 0, last, MaxLoop), key, old)

\* sbitsGet(state, &key, data): the engine it leaves, its status, the data copied out
\* (data keeps its old content, old, when nothing is copied) and how it ended
sbitsGet(e, key, old, u) ==
    IF ULess(e.state.nextPageWriteId, e.state.firstDataPage)
    THEN GetFirst([e EXCEPT !.state = ReadNextIdxPageWriteId(@, u)], key, old, TRUE)
    ELSE GetFirst(e, key, old, FALSE)

(***************************************************************************)
(* The iterator.  A pointer is the empty sequence (NULL) or <<v>>, the     *)
(* value it points to.  A uint64_t bitmap is its eight bytes, bit p of the *)
(* integer being bit p % 8 of byte p \div 8 (little-endian).               *)
(***************************************************************************)
NULL == << >>

BitAt(bm, p) == BitOf(bm[p \div 8], p % 8)

\* *bmval = *bmval + val, val being 1 << p: the carry runs up from bit p
RECURSIVE AddBit(_, _)
AddBit(bm, p) ==
    IF p > 63 THEN bm
    ELSE IF BitAt(bm, p) = 0 THEN [bm EXCEPT ![p \div 8] = @ + 2 ^ (p % 8)]
    ELSE AddBit([bm EXCEPT ![p \div 8] = @ - 2 ^ (p % 8)], p + 1)

\* buildBitmapInt64FromRange keeps val = 1 << (63 - i) while i < 64, and val = 0 after.
\* Its first loop: i when it stops
RECURSIVE FindFirstBit(_, _)
FindFirstBit(bm, i) ==
    IF i < 64 /\ BitAt(bm, 63 - i) = 0 THEN FindFirstBit(bm, i + 1) ELSE i

\* its loop for max != NULL
RECURSIVE FillToBit(_, _)
FillToBit(bm, i) ==
    IF i < 64 /\ BitAt(bm, 63 - i) = 0 THEN FillToBit(AddBit(bm, 63 - i), i + 1) ELSE bm

\* its loop for max == NULL
RECURSIVE FillRest(_, _)
FillRest(bm, i) ==
    \* reading *bmval at each turn keeps the evaluation of the sum strict
    IF i < 64 /\ BitAt(bm, 63 - i) \in {0, 1} THEN FillRest(AddBit(bm, 63 - i), i + 1) ELSE bm

\* buildBitmapInt64FromRange(state, min, max, bm), bm holding zero on entry
buildBitmapInt64FromRange(y, min, max, bm) ==
    LET bmMin == IF min # NULL THEN updateBitmap(y, min[1], bm, 0) ELSE bm
        i == IF min # NULL THEN FindFirstBit(bmMin, 0) + 1 ELSE 0
        bmMax == updateBitmap(y, max[1], bmMin, 0)
    IN  IF min = NULL /\ max = NULL THEN [a \in 0..7 |-> 255]
        ELSE IF max # NULL
        THEN (IF bmMax = bmMin THEN bmMax ELSE FillToBit(bmMax, i))
        ELSE FillRest(bmMin, i)

\* sbitsInitIterator(state, it): it holds the filters the caller set
sbitsInitIterator(y, it) ==
    LET useBm == SBITS_USING_BMAP(y.parameters) = 1 /\ (it.minData # NULL \/ it.maxData # NULL)
        it1 == [it EXCEPT !.queryBitmap = NULL, !.lastIdxIterRec = 20000]
        it2 == IF useBm
               THEN [it1 EXCEPT !.queryBitmap =
                        <<buildBitmapInt64FromRange(y, it.minData, it.maxData, ZeroBitmap)>>]
               ELSE it1
        it3 == IF useBm /\ y.indexFile
               THEN [it2 EXCEPT !.lastIdxIterPage = y.firstIdxPage, !.lastIdxIterRec = 10000,
                                !.wrappedIdxMemory = 0]
               ELSE it2
    IN  [it3 EXCEPT !.lastIterPage = y.firstDataPage - 1, !.lastIterRec = 10000,
                    !.wrappedMemory = 0]

\* (*((count_t*) it->queryBitmap) & *bm) >= 1 for the count_t at mem + bm
QueryMeets(it, mem, bm) ==
    BytesMeet(it.queryBitmap[1][0], mem[bm]) \/ BytesMeet(it.queryBitmap[1][1], mem[bm + 1])

\* FilterRecord with the test of maxData left out
FilterRecordNoMaxData(it, key, data) ==
    IF it.minKey # NULL /\ int32Comparator(key, it.minKey[1]) < 0 THEN "skip"
    ELSE IF it.maxKey # NULL /\ int32Comparator(key, it.maxKey[1]) > 0 THEN "end"
    ELSE IF it.minData # NULL /\ int32Comparator(data, it.minData[1]) < 0 THEN "skip"
    ELSE "yield"

\* sbitsNext, lines 709-723: the record at it->lastIterRec of the read frame against
\* the filters: "yield", "skip" (continue) or "end" (return 0)
FilterRecord(it, key, data) ==
    IF it.minKey # NULL /\ int32Comparator(key, it.minKey[1]) < 0 THEN "skip"
    ELSE IF it.maxKey # NULL /\ int32Comparator(key, it.maxKey[1]) > 0 THEN "end"
    ELSE IF it.minData # NULL /\ int32Comparator(data, it.minData[1]) < 0 THEN "skip"
    ELSE IF it.maxData # NULL /\ int32Comparator(data, it.maxData[1]) > 0 THEN "skip"
    ELSE "yield"

\* sbitsNext, lines 626-640: the next data page of a sequential scan
NextSequentialPage(y, it) ==
    LET p == it.lastIterPage + 1
        wrap == ~ULess(p, y.endDataPage)
        it1 == IF wrap THEN [it EXCEPT !.lastIterPage = 0, !.wrappedMemory = 1]
               ELSE [it EXCEPT !.lastIterPage = p]
        done == (y.wrappedMemory = 0 \/ it1.wrappedMemory = 1)
                /\ ~ULess(it1.lastIterPage, y.nextPageWriteId)
    IN  [it |-> it1, done |-> done, readPageId |-> it1.lastIterPage]

\* sbitsNext, lines 645-675: load the next index page when the current one is used up
NextIndexPage(e, it) ==
    LET y == e.state
        idxbuf == y.pageSize * SBITS_INDEX_READ_BUFFER
        size == (y.endIdxPage - y.startIdxPage) + 1
        it1 == IF ~ULess(it.lastIdxIterPage, size)
               THEN [it EXCEPT !.wrappedIdxMemory = 1, !.lastIdxIterPage = 0] ELSE it
        done == (y.wrappedIdxMemory = 0 \/ it1.wrappedIdxMemory = 1)
                /\ ~ULess(it1.lastIdxIterPage, y.nextIdxPageWriteId)
        r == readIndexPage(e, it1.lastIdxIterPage)
        cnt == SBITS_GET_COUNT(r.e.buffer, idxbuf)
        id == Load32(r.e.buffer, idxbuf + 8)
        rec == IF ULess(id, y.firstDataPageId) THEN (y.firstDataPageId - id) % 65536 ELSE 0
        page == IF rec >= cnt
                THEN ((it1.lastIdxIterPage + 1) + (rec \div y.maxIdxRecordsPerPage)) - 1
                ELSE it1.lastIdxIterPage + 1
    IN  IF done THEN [e |-> e, it |-> it1, done |-> TRUE, failed |-> FALSE]
        ELSE IF r.ret # 0 THEN [e |-> r.e, it |-> it1, done |-> TRUE, failed |-> TRUE]
        ELSE [e |-> r.e, done |-> FALSE, failed |-> FALSE,
              it |-> [it1 EXCEPT !.lastIdxIterPage = page, !.lastIdxIterRec = rec,
                                 !.lastIterPage = id]]

\* sbitsNext, lines 678-688: the first entry at or after it->lastIdxIterRec that
\* meets the query bitmap; rec is the entry, or cnt when there is none
RECURSIVE ScanIndexEntries(_, _, _, _)
ScanIndexEntries(it, mem, idxbuf, rec) ==
    IF rec >= SBITS_GET_COUNT(mem, idxbuf) THEN [match |-> FALSE, rec |-> rec]
    ELSE IF QueryMeets(it, mem, idxbuf + SBITS_IDX_HEADER_SIZE + rec * SizeofCount)
    THEN [match |-> TRUE, rec |-> rec]
    ELSE ScanIndexEntries(it, mem, idxbuf, rec + 1)

\* sbitsNext: at is "top" (line 618), "page" (line 624, the inner while) or "record"
\* (line 710).  ret is the status; key and data are the record *key and *data point
\* to; end is "return", "readfail" when a page read failed, "hang" when the loops are still running after fuel steps, or
\* "wild" when the record at it->lastIterRec lies beyond the end of state->buffer
RECURSIVE NextStep(_, _, _, _, _, _)
RECURSIVE NextLoad(_, _, _, _, _)
RECURSIVE NextScan(_, _, _, _, _)
RECURSIVE NextIndex(_, _, _, _)

\* NextLoad with return 1 in the place of return 0 after a failed readPage
NextLoadReturnsOne(r, it, key, data, fuel) ==
    IF r.ret # 0
    THEN [e |-> r.e, it |-> it, ret |-> 1, key |-> key, data |-> data, end |-> "readfail"]
    ELSE IF it.queryBitmap = NULL \/ SBITS_USING_BMAP(r.e.state.parameters) = 0
    THEN NextStep(r.e, it, "record", key, data, fuel - 1)
    ELSE IF QueryMeets(it, r.e.buffer, SBITS_GET_BITMAP(r.e.state.pageSize))
    THEN NextStep(r.e, it, "record", key, data, fuel - 1)
    ELSE NextStep(r.e, it, "page", key, data, fuel - 1)

\* sbitsNext, lines 690-706 (label readPage): r is what readPage left and returned
NextLoad(r, it, key, data, fuel) ==
    IF r.ret # 0
    THEN [e |-> r.e, it |-> it, ret |-> 0, key |-> key, data |-> data, end |-> "readfail"]
    ELSE IF it.queryBitmap = NULL \/ SBITS_USING_BMAP(r.e.state.parameters) = 0
    THEN NextStep(r.e, it, "record", key, data, fuel - 1)
    ELSE IF QueryMeets(it, r.e.buffer, SBITS_GET_BITMAP(r.e.state.pageSize))
    THEN NextStep(r.e, it, "record", key, data, fuel - 1)
    ELSE NextStep(r.e, it, "page", key, data, fuel - 1)

\* sbitsNext, lines 677-689: the entries of the index page; nip is what
\* NextIndexPage left, scan the entry ScanIndexEntries stopped at
NextScan(nip, scan, key, data, fuel) ==
    IF scan.match
    THEN NextLoad(readPage(nip.e, (nip.it.lastIterPage + scan.rec)
                                    % (nip.e.state.endDataPage - nip.e.state.startDataPage)),
                  [nip.it EXCEPT !.lastIdxIterRec = (scan.rec + 1) % 65536],
                  key, data, fuel)
    ELSE NextStep(nip.e, [nip.it EXCEPT !.lastIdxIterRec = scan.rec], "page",
                  key, data, fuel - 1)

\* sbitsNext, lines 642-689: the index-driven choice of the next data page
NextIndex(nip, key, data, fuel) ==
    IF nip.done
    THEN [e |-> nip.e, it |-> nip.it, ret |-> 0, key |-> key, data |-> data,
          end |-> IF nip.failed THEN "readfail" ELSE "return"]
    ELSE NextScan(nip,
                  ScanIndexEntries(nip.it, nip.e.buffer,
                                   nip.e.state.pageSize * SBITS_INDEX_READ_BUFFER,
                                   nip.it.lastIdxIterRec),
                  key, data, fuel)

\* sbitsNext, lines 626-640: the sequential choice of the next data page
NextSequential(e, seq, key, data, fuel) ==
    IF seq.done
    THEN [e |-> e, it |-> seq.it, ret |-> 0, key |-> key, data |-> data, end |-> "return"]
    ELSE NextLoad(readPage(e, seq.readPageId), seq.it, key, data, fuel)

\* sbitsNext, lines 708-723: the record at it->lastIterRec; k and d are its key and data
NextRecord(e, it, k, d, fuel) ==
    IF FilterRecord(it, k, d) = "yield"
    THEN [e |-> e, it |-> [it EXCEPT !.lastIterRec = (@ + 1) % 65536], ret |-> 1,
          key |-> k, data |-> d, end |-> "return"]
    ELSE IF FilterRecord(it, k, d) = "end"
    THEN [e |-> e, it |-> [it EXCEPT !.lastIterRec = (@ + 1) % 65536], ret |-> 0,
          key |-> k, data |-> d, end |-> "return"]
    ELSE NextStep(e, [it EXCEPT !.lastIterRec = (@ + 1) % 65536], "top", k, d, fuel - 1)

NextStep(e, it, at, key, data, fuel) ==
    LET y == e.state
        buf == y.pageSize
        idxbuf == y.pageSize * SBITS_INDEX_READ_BUFFER
        rec == buf + y.headerSize + it.lastIterRec * y.recordSize
    IN  IF fuel = 0
        THEN [e |-> e, it |-> it, ret |-> 0, key |-> key, data |-> data, end |-> "hang"]
        ELSE IF at = "top"
        THEN IF it.lastIterRec >= SBITS_GET_COUNT(e.buffer, buf)
             THEN NextStep(e, [it EXCEPT !.lastIterRec = 0], "page", key, data, fuel - 1)
             ELSE NextStep(e, it, "record", key, data, fuel - 1)
        ELSE IF at = "page"
        THEN IF it.lastIdxIterRec = 20000
             THEN NextSequential(e, NextSequentialPage(y, it), key, data, fuel)
             ELSE IF it.lastIdxIterRec = 10000
                     \/ it.lastIdxIterRec >= SBITS_GET_COUNT(e.buffer, idxbuf)
             THEN NextIndex(NextIndexPage(e, it), key, data, fuel)
             ELSE NextIndex([e |-> e, it |-> it, done |-> FALSE, failed |-> FALSE],
                            key, data, fuel)
        ELSE IF rec + y.recordSize > y.bufferSizeInBlocks * y.pageSize
        THEN [e |-> e, it |-> it, ret |-> 0, key |-> key, data |-> data, end |-> "wild"]
        ELSE NextRecord(e, it, Load32(e.buffer, rec), Load32(e.buffer, rec + y.keySize), fuel)

\* sbitsNext(state, it, &key, &data); key and data hold the caller's old pointers
sbitsNext(e, it, key, data) == NextStep(e, it, "top", key, data, MaxLoop)

(***************************************************************************)
(* The configurations the caller sets up before sbitsInit (test_sbits.h,   *)
(* lines 337-376), scaled down: 4-byte keys, 4-byte data, two records per  *)
(* page.  load is what the caller then does with the engine.               *)
(***************************************************************************)
Config(parameters, bitmapSize, encoder, numPages, erase, blocks, load) ==
    LET c == [keySize |-> 4, dataSize |-> 4, bitmapSize |-> bitmapSize,
              parameters |-> parameters]
        pageSize == HeaderSize(c) + 2 * (c.keySize + c.dataSize)
    IN  [pageSize |-> pageSize, keySize |-> c.keySize, dataSize |-> c.dataSize,
         bitmapSize |-> bitmapSize, parameters |-> parameters,
         bufferSizeInBlocks |-> blocks, startAddress |-> 0,
         endAddress |-> pageSize * numPages, eraseSizeInPages |-> erase,
         updateBitmap |-> encoder, load |-> load,
         openData |-> TRUE, openIndex |-> TRUE, writable |-> TRUE, readable |-> TRUE]

\* the same configuration on a storage where fopen of the data file, fopen of the
\* index file, or every fwrite fails (FALSE)
Storage(c, openData, openIndex, writable) ==
    [c EXCEPT !.openData = openData, !.openIndex = openIndex, !.writable = writable]

\* the same configuration on a storage where every fread fails
Unreadable(c) == [c EXCEPT !.readable = FALSE]

\* the iterator filters: minKey, maxKey, minData, maxData
Filter(minKey, maxKey, minData, maxData) ==
    [minKey |-> minKey, maxKey |-> maxKey, minData |-> minData, maxData |-> maxData]

\* What the caller does (test_sbits.h, lines 396-421 and 495-684): it inserts keys
\* that grow by one of keySteps from one put to the next, with data dataStep * key + v
\* for a v of dataVals; it asks sbitsGet for keys of getKeys and iterates with filters
\* of filters; when mix is FALSE it inserts and flushes first and makes one query after.
Load(keySteps, dataVals, dataStep, getKeys, filters, mix) ==
    [keySteps |-> keySteps, dataVals |-> dataVals, dataStep |-> dataStep,
     getKeys |-> getKeys, filters |-> filters, mix |-> mix, puts |-> MaxPuts,
     queries |-> MaxQueries]

\* the same caller, inserting until the file has wrapped
LongLoad(load) == [load EXCEPT !.puts = MaxLongPuts, !.queries = MaxLongQueries]

\* the values an unassigned id_t field of the malloc'ed state may hold
UninitIds == {0, 3}
\* the contents the malloc'ed read frame may hold (see GarbagePage)
Garbage == {0, 1, 2}

VARIABLES
    cfg,        \* the configuration the engine was initialised with
    state,      \* the sbitsState structure
    buffer,     \* state->buffer, bufferSizeInBlocks * pageSize bytes
    file,       \* datafile.bin, as the sequence of its pages
    indexFile,  \* idxfile.bin, as the sequence of its pages
    it,         \* the caller's sbitsIterator
    op,         \* the last call: "init", "put", "flush", "get", "initIterator", "next"
    ret,        \* its status
    end,        \* how it ended: "return", or "divzero", "hang", "readfail", "wild"
    key, data,  \* its key and data arguments (for get and next: what it handed back)
    gfile,      \* history: for each page of the file, its logical id and the records put in it
    gbuf,       \* history: the records put in the write buffer since it was initialised
    yielded,    \* history: the records the iterator handed back since sbitsInitIterator
    lastKey,    \* history: the key of the last put
    calls       \* history: the number of put, flush and query calls made

vars == <<cfg, state, buffer, file, indexFile, it, op, ret, end, key, data,
          gfile, gbuf, yielded, lastKey, calls>>

Engine == [state |-> state, buffer |-> buffer, file |-> file, indexFile |-> indexFile,
           writable |-> cfg.writable, readable |-> cfg.readable]

\* the iterator structure before sbitsInitIterator: nothing in it is assigned
RawIterator ==
    [lastIterPage |-> Undef, lastIterRec |-> Undef, lastIdxIterPage |-> Undef,
     lastIdxIterRec |-> Undef, wrappedMemory |-> Undef, wrappedIdxMemory |-> Undef,
     minKey |-> NULL, maxKey |-> NULL, minData |-> NULL, maxData |-> NULL,
     queryBitmap |-> NULL]

InitWith(c) ==
    LET r == sbitsInit(c)
    IN  /\ cfg = c
        /\ state = r.state
        /\ buffer = r.buffer
        /\ file = << >>
        /\ indexFile = << >>
        /\ it = RawIterator
        /\ op = "init" /\ ret = r.ret /\ end = "return" /\ key = 0 /\ data = 0
        /\ gfile = << >> /\ gbuf = << >> /\ yielded = << >> /\ lastKey = 0
        /\ calls = [put |-> 0, flush |-> 0, query |-> 0, ended |-> 0]

\* the queries a caller makes in one behaviour
QueriesOf(load) == IF load.mix THEN load.queries ELSE 1

\* the engine after a call
SetEngine(e) ==
    /\ state' = e.state
    /\ buffer' = e.buffer
    /\ file' = e.file
    /\ indexFile' = e.indexFile

\* history of the data pages: a call that wrote a data page wrote the records of the
\* write buffer, under the logical id nextPageId had, to the slot before nextPageWriteId
PageHistory(e) ==
    IF e.state.numWrites = state.numWrites THEN gfile
    ELSE WritePageAt(gfile, e.state.nextPageWriteId - 1,
                     [id |-> state.nextPageId, recs |-> gbuf], [id |-> -1, recs |-> << >>])

Put(k, d) ==
    /\ calls.put < cfg.load.puts
    /\ cfg.load.mix \/ calls.query = 0
    /\ \E u \in (IF state.nextIdxPageWriteId = Undef THEN UninitIds ELSE {0}) :
        LET r == sbitsPut(Engine, k, d, u)
            reinit == SBITS_GET_COUNT(buffer, 0) >= state.maxRecordsPerPage
        IN  /\ SetEngine(r.e)
            /\ ret' = r.ret
            /\ gfile' = PageHistory(r.e)
            /\ gbuf' = IF reinit THEN << <<k, d>> >> ELSE Append(gbuf, <<k, d>>)
    /\ op' = "put" /\ end' = "return" /\ key' = k /\ data' = d /\ lastKey' = k
    /\ calls' = [calls EXCEPT !.put = @ + 1]
    /\ UNCHANGED <<cfg, it, yielded>>

Flush ==
    /\ calls.flush < MaxFlush
    /\ cfg.load.mix \/ calls.query = 0
    /\ LET r == sbitsFlush(Engine)
       IN  /\ SetEngine(r.e)
           /\ ret' = r.ret
           /\ gfile' = PageHistory(r.e)
    /\ gbuf' = << >>
    /\ op' = "flush" /\ end' = "return"
    /\ calls' = [calls EXCEPT !.flush = @ + 1]
    /\ UNCHANGED <<cfg, it, key, data, yielded, lastKey>>

Get(k) ==
    /\ calls.query < QueriesOf(cfg.load)
    /\ \E u \in (IF state.nextIdxPageWriteId = Undef THEN UninitIds ELSE {0}) :
        LET r == sbitsGet(Engine, k, data, u)
        IN  /\ SetEngine(r.e)
            /\ ret' = r.ret /\ end' = r.end /\ data' = r.data
    /\ op' = "get" /\ key' = k
    /\ calls' = [calls EXCEPT !.query = @ + 1]
    /\ UNCHANGED <<cfg, it, gfile, gbuf, yielded, lastKey>>

InitIterator(f) ==
    /\ calls.query < QueriesOf(cfg.load)
    /\ it' = sbitsInitIterator(state, [it EXCEPT !.minKey = f.minKey, !.maxKey = f.maxKey,
                                                 !.minData = f.minData, !.maxData = f.maxData])
    /\ op' = "initIterator" /\ end' = "return" /\ yielded' = << >>
    /\ calls' = [calls EXCEPT !.query = @ + 1, !.ended = 0]
    /\ UNCHANGED <<cfg, state, buffer, file, indexFile, ret, key, data, gfile, gbuf, lastKey>>

Next ==
    /\ it.lastIterRec # Undef
    /\ calls.ended < MaxEndCalls
    /\ Len(yielded) < MaxYield
    /\ \E g \in (IF buffer[state.pageSize] = UninitByte THEN Garbage ELSE {0}) :
        LET r == sbitsNext([Engine EXCEPT !.buffer = ResolveReadFrame(buffer, state, g)],
                           it, key, data)
        IN  /\ SetEngine(r.e)
            /\ it' = r.it
            /\ ret' = r.ret /\ end' = r.end /\ key' = r.key /\ data' = r.data
            /\ yielded' = IF r.ret = 1 THEN Append(yielded, <<r.key, r.data>>) ELSE yielded
            /\ calls' = IF r.ret = 1 THEN calls ELSE [calls EXCEPT !.ended = @ + 1]
    /\ op' = "next"
    /\ UNCHANGED <<cfg, gfile, gbuf, lastKey>>

NextAction ==
    \/ \E s \in cfg.load.keySteps : \E v \in cfg.load.dataVals :
          Put(lastKey + s, cfg.load.dataStep * (lastKey + s) + v)
    \/ Flush
    \/ \E k \in cfg.load.getKeys : Get(k)
    \/ \E f \in cfg.load.filters : InitIterator(f)
    \/ Next

(***************************************************************************)
(* Spec: the write path.  Repeated keys on a plain engine, and the two     *)
(* data values 500 and 810 on an engine with the min/max summary and the   *)
(* 64-bit bitmap.                                                          *)
(***************************************************************************)
WriteConfigs ==
    { Config(0, 0, "Int64", 2, 1, 2,
             Load({0, 1}, {500}, 0, {1}, {Filter(NULL, <<0>>, NULL, NULL)}, FALSE)),
      Config(SBITS_USE_MAX_MIN + SBITS_USE_BMAP, 8, "Int64", 2, 1, 2,
             Load({1}, {500, 810}, 0, {1}, {Filter(NULL, <<0>>, NULL, NULL)}, FALSE)) }

Init == \E c \in WriteConfigs : InitWith(c)

Spec == Init /\ [][NextAction]_vars

(***************************************************************************)
(* The pages of the data file                                              *)
(***************************************************************************)
\* the records a stored page holds, as <<key, data>>
RecordsOf(y, page) ==
    [i \in 1..SBITS_GET_COUNT(page, 0) |->
        <<Load32(page, y.headerSize + (i - 1) * y.recordSize),
          Load32(page, y.headerSize + (i - 1) * y.recordSize + y.keySize)>>]

\* C7: each data page write stamps the page with the value nextPageId had and leaves
\* nextPageId one higher; no other step changes nextPageId.  Hence the ids of the
\* pages ever written are all different.
PageIdStrictlyIncreasing ==
    [][IF state'.numWrites = state.numWrites
       THEN state'.nextPageId = state.nextPageId
       ELSE /\ state'.nextPageId > state.nextPageId
            /\ Load32(file'[state'.nextPageWriteId], 0) = state.nextPageId]_vars

\* a page has been written over an earlier one after the wrap
PageWrittenAfterWrap ==
    op = "put" /\ state.wrappedMemory = 1 /\ state.numWrites >= 3 /\ Len(file) = 2

\* C8: once a page has been written, avgKeyDiff (an unsigned number) is at least 1
AvgKeyDiffAtLeastOne == state.numWrites >= 1 => ULess(0, state.avgKeyDiff)

\* C9: with MAX_MIN, the header summary of every page of the file brackets the
\* records of the page
HeaderBracketsRecords ==
    SBITS_USING_MAX_MIN(state.parameters) = 1 =>
        \A s \in 1..Len(file) : \A i \in DOMAIN RecordsOf(state, file[s]) :
            LET r == RecordsOf(state, file[s])[i]
            IN  /\ Load32(file[s], SBITS_GET_MIN_KEY(0, state)) <= r[1]
                /\ r[1] <= Load32(file[s], SBITS_GET_MAX_KEY(0, state))
                /\ Load32(file[s], SBITS_GET_MIN_DATA(0, state)) <= r[2]
                /\ r[2] <= Load32(file[s], SBITS_GET_MAX_DATA(0, state))

\* the bit the encoder sets for d is set in the bitmap at bm of mem: what a
\* non-zero inBitmap(d, bm) requires
BitInBitmap(y, d, mem, bm) ==
    \E b \in 0..7 : BytesMeet(updateBitmap(y, d, ZeroBitmap, 0)[b], mem[bm + b])

\* C10: with BMAP, for every record of every page of the file, the bit of the record's
\* data is set in the bitmap of the page (so that inBitmap can be non-zero)
RecordsInPageBitmap ==
    SBITS_USING_BMAP(state.parameters) = 1 =>
        \A s \in 1..Len(file) : \A i \in DOMAIN RecordsOf(state, file[s]) :
            BitInBitmap(state, RecordsOf(state, file[s])[i][2], file[s], SBITS_GET_BITMAP(0))

(***************************************************************************)
(* SpecGet: sbitsGet.  Keys that grow by 1 or 2 and data 100 + key, on a   *)
(* plain engine and on one with the min/max summary; on the third engine   *)
(* the caller goes on inserting between two queries.                       *)
(***************************************************************************)
GetConfigs ==
    { Config(0, 0, "Int64", 2, 1, 2,
             Load({1, 2}, {100}, 1, 0..13, {Filter(NULL, <<0>>, NULL, NULL)}, FALSE)),
      Config(SBITS_USE_MAX_MIN, 0, "Int64", 2, 1, 2,
             Load({1, 2}, {100}, 1, 0..13, {Filter(NULL, <<0>>, NULL, NULL)}, FALSE)),
      Config(0, 0, "Int64", 2, 1, 2,
             Load({1}, {100}, 1, 0..7, {Filter(NULL, <<0>>, NULL, NULL)}, TRUE)) }

InitGet == \E c \in GetConfigs : InitWith(c)

SpecGet == InitGet /\ [][NextAction]_vars

\* the records put in the pages the file holds and in the write buffer
StoredRecords ==
    {gbuf[i] : i \in DOMAIN gbuf}
      \cup UNION {{gfile[s].recs[i] : i \in DOMAIN gfile[s].recs} : s \in DOMAIN gfile}

\* the records put whose page the wrap has not reclaimed: those of the write buffer
\* and of the pages of the file from logical page firstDataPageId on
LiveRecords ==
    {gbuf[i] : i \in DOMAIN gbuf}
      \cup UNION {{gfile[s].recs[i] : i \in DOMAIN gfile[s].recs} :
                    s \in {t \in DOMAIN gfile : gfile[t].id >= state.firstDataPageId}}

\* C1: sbitsGet of a key that was put and is not reclaimed returns 0 and the data put
\* with the key (keys are put once here)
GetReturnsLiveRecord ==
    op = "get" =>
        \A r \in LiveRecords : r[1] = key => ret = 0 /\ data = r[2]

\* C2: after puts with strictly increasing keys that did not wrap the file and a
\* flush, sbitsGet of each inserted key returns 0 and the data put with it
RoundTrip ==
    (op = "get" /\ gbuf = << >> /\ state.wrappedMemory = 0 /\ calls.flush = 1) =>
        \A r \in StoredRecords : r[1] = key => ret = 0 /\ data = r[2]

\* C3: sbitsGet returns 0 only for a key that a record of the file (or of the write
\* buffer) was put with, and hands back the data of such a record
GetFindsOnlyStored ==
    (op = "get" /\ ret = 0) => <<key, data>> \in StoredRecords

(***************************************************************************)
(* SpecIter: the iterator.  Keys 1, 2, 3, ... with data 250 * key, on a    *)
(* plain engine and on one with the 64-bit bitmap and the index; the       *)
(* filters are a key range, two data ranges and none.                      *)
(***************************************************************************)
IterFilters ==
    { Filter(NULL, NULL, NULL, NULL),
      Filter(<<2>>, <<3>>, NULL, NULL),
      Filter(NULL, NULL, <<500>>, <<500>>),
      Filter(NULL, NULL, <<0>>, <<400>>) }

IterConfigs ==
    { Config(0, 0, "Int64", 2, 1, 2, Load({1}, {0}, 250, {1}, IterFilters, FALSE)),
      Config(SBITS_USE_BMAP + SBITS_USE_INDEX, 8, "Int64", 4, 1, 4,
             Load({1}, {0}, 250, {1}, IterFilters, FALSE)) }

InitIter == \E c \in IterConfigs : InitWith(c)

SpecIter == InitIter /\ [][NextAction]_vars

\* the record meets the filters of the iterator
MeetsFilters(r) ==
    /\ it.minKey = NULL \/ r[1] >= it.minKey[1]
    /\ it.maxKey = NULL \/ r[1] <= it.maxKey[1]
    /\ it.minData = NULL \/ r[2] >= it.minData[1]
    /\ it.maxData = NULL \/ r[2] <= it.maxData[1]

\* C4: a record sbitsNext returns 1 for meets every filter that is set
YieldedMeetsFilters ==
    (op = "next" /\ ret = 1) => MeetsFilters(<<key, data>>)

\* sbitsNext has handed back a record chosen through the index, under a data filter
YieldedThroughIndex ==
    /\ op = "next" /\ ret = 1
    /\ it.maxData # NULL /\ it.lastIdxIterRec < 10000
    /\ \E r \in LiveRecords : ~MeetsFilters(r)

\* the records the iterator handed back
Yielded == {yielded[i] : i \in DOMAIN yielded}

\* C5: with BMAP and the index, once everything is flushed, an iterator with a data
\* range that returns 0 for the first time has handed back all and only the live
\* records in the range
DataRangeComplete ==
    (/\ op = "next" /\ ret = 0 /\ end = "return" /\ calls.ended = 1
     /\ state.indexFile /\ SBITS_USING_BMAP(state.parameters) = 1
     /\ gbuf = << >>
     /\ it.minData # NULL /\ it.maxData # NULL /\ it.minKey = NULL /\ it.maxKey = NULL)
        => Yielded = {r \in LiveRecords : MeetsFilters(r)}

\* C6: with a key range only, over flushed data with keys 1, 2, 3, ..., the records
\* handed back up to the first return of 0 are in strictly ascending key order (so
\* each once) and in the range, and at that return of 0 they are all the stored
\* records in the range
KeyRangeExact ==
    (/\ op = "next" /\ end = "return" /\ calls.ended = (IF ret = 0 THEN 1 ELSE 0)
     /\ gbuf = << >>
     /\ it.minKey # NULL /\ it.maxKey # NULL /\ it.minData = NULL /\ it.maxData = NULL)
        => /\ \A i \in DOMAIN yielded : yielded[i] \in StoredRecords /\ MeetsFilters(yielded[i])
           /\ \A i \in DOMAIN yielded : \A j \in DOMAIN yielded :
                 i < j => yielded[i][1] < yielded[j][1]
           /\ ret = 0 => Yielded = {r \in StoredRecords : MeetsFilters(r)}

\* the union of updateBitmap(d) over the data d of recs[i], recs[i + 1], ..., on bm
RECURSIVE BitmapUnion(_, _, _, _)
BitmapUnion(y, recs, i, bm) ==
    IF i > Len(recs) THEN bm
    ELSE BitmapUnion(y, recs, i + 1, updateBitmap(y, recs[i][2], bm, 0))

\* C26: with BMAP, the bitmap of every page of the file is the union of the bitmaps
\* of the data values of its records, and has no other bit
PageBitmapIsUnion ==
    SBITS_USING_BMAP(state.parameters) = 1 =>
        \A s \in 1..Len(file) : \A b \in 0..(state.bitmapSize - 1) :
            file[s][SBITS_BITMAP_OFFSET + b]
                = BitmapUnion(state, RecordsOf(state, file[s]), 1, ZeroBitmap)[b]

(***************************************************************************)
(* SpecFault: sbitsInit over regions of 0 to 5 pages, with and without the *)
(* index, on storage where fopen or fwrite may fail.  After these          *)
(* initialisations the caller only flushes; three further callers insert:  *)
(* on a storage that refuses every write, with a data file that could not  *)
(* be opened (the status of sbitsInit ignored), and on a sound storage;     *)
(* two more insert and then query a storage that refuses every read.       *)
(***************************************************************************)
NoLoad == Load({}, {}, 0, {}, {}, FALSE)

InitConfigs ==
    { Storage(Config(parameters, 0, "Int64", numPages, erase, blocks, NoLoad),
              openData, openIndex, TRUE) :
        parameters \in {0, SBITS_USE_INDEX}, numPages \in 0..5, erase \in {1, 2},
        blocks \in {2, 4}, openData \in BOOLEAN, openIndex \in BOOLEAN }

FaultConfigs ==
    { Storage(Config(0, 0, "Int64", 2, 1, 2, Load({1}, {100}, 1, {}, {}, FALSE)),
              TRUE, TRUE, FALSE),
      Storage(Config(0, 0, "Int64", 2, 1, 2, Load({1}, {100}, 1, {}, {}, FALSE)),
              FALSE, TRUE, TRUE),
      Config(SBITS_USE_INDEX, 0, "Int64", 4, 1, 4,
             Load({1}, {100}, 1, {1, 2}, {Filter(NULL, NULL, NULL, NULL)}, FALSE)),
      Unreadable(Config(0, 0, "Int64", 2, 1, 2,
             Load({1}, {100}, 1, {1, 2}, {Filter(NULL, NULL, NULL, NULL)}, FALSE))),
      Unreadable(Config(SBITS_USE_BMAP + SBITS_USE_INDEX, 8, "Int64", 4, 1, 4,
             Load({1}, {0}, 250, {1}, {Filter(NULL, NULL, <<0>>, <<400>>)}, FALSE))) }

InitFault == \E c \in InitConfigs \cup FaultConfigs : InitWith(c)

SpecFault == InitFault /\ [][NextAction]_vars

\* the page write of the call that leads to the next state fails: it is a put on a
\* full write buffer, or a flush, and the file is not open or the storage refuses
WriteFails ==
    /\ \/ op' = "put" /\ SBITS_GET_COUNT(buffer, 0) >= state.maxRecordsPerPage
       \/ op' = "flush"
    /\ ~state.file \/ ~cfg.writable

\* C12: sbitsPut returns non-zero when its page write fails, and 0 otherwise
PutReportsWriteFailure ==
    [][op' = "put" => (ret' # 0 <=> WriteFails)]_vars

\* C13: when the page write of a put or of a flush fails, the write buffer is not
\* reinitialised: it still holds the records it held
BufferKeptOnWriteFailure ==
    [][WriteFails =>
          /\ SBITS_GET_COUNT(buffer', 0) >= SBITS_GET_COUNT(buffer, 0)
          /\ \A i \in DOMAIN RecordsOf(state, buffer) :
                RecordsOf(state', buffer')[i] = RecordsOf(state, buffer)[i]]_vars

\* the pages of the region, and the pages sbitsInit asks for
RegionPages == (cfg.endAddress - cfg.startAddress) \div cfg.pageSize
NeededPages ==
    (IF SBITS_USING_INDEX(cfg.parameters) = 1 THEN 4 ELSE 2) * cfg.eraseSizeInPages

\* C14: sbitsInit returns non-zero and opens no file on a region of fewer than
\* 2 * eraseSizeInPages pages (4 * eraseSizeInPages with the index flag), and returns
\* 0 only on regions of at least that size
InitRejectsSmallRegion ==
    op = "init" =>
        /\ RegionPages < NeededPages => ret # 0 /\ ~state.file /\ ~state.indexFile
        /\ ret = 0 => RegionPages >= NeededPages

\* sbitsInit has refused a region that is large enough for an engine without index
SmallIndexRegionRefused ==
    /\ op = "init" /\ ret # 0 /\ cfg.openData /\ cfg.openIndex
    /\ SBITS_USING_INDEX(cfg.parameters) = 1
    /\ RegionPages >= 2 * cfg.eraseSizeInPages /\ RegionPages < NeededPages

\* C15: with the index flag and fewer than 4 buffer frames (region large enough,
\* data file opened), sbitsInit returns non-zero
InitRejectsSmallBuffer ==
    (/\ op = "init" /\ SBITS_USING_INDEX(cfg.parameters) = 1
     /\ cfg.bufferSizeInBlocks < 4 /\ RegionPages >= NeededPages /\ cfg.openData)
        => ret # 0

\* C16: sbitsFlush on an empty write buffer writes no data page and no index page
\* and leaves nextPageId, nextPageWriteId and numWrites as they were
FlushOnEmptyIsNoOp ==
    [][(op' = "flush" /\ SBITS_GET_COUNT(buffer, 0) = 0) =>
          /\ file' = file /\ indexFile' = indexFile
          /\ state'.nextPageId = state.nextPageId
          /\ state'.nextPageWriteId = state.nextPageWriteId
          /\ state'.numWrites = state.numWrites]_vars

\* C24: a call in which a page read fails ends there: sbitsGet returns non-zero and
\* leaves the caller's data as it was, sbitsNext returns 0 and hands back no record;
\* on a storage that refuses every read the call has read nothing
ReadFailurePropagates ==
    [][end' = "readfail" =>
          /\ op' = "get" => (ret' # 0 /\ data' = data)
          /\ op' = "next" => (ret' = 0 /\ yielded' = yielded)
          /\ ~cfg.readable => /\ state'.numReads = state.numReads
                               /\ state'.numIdxReads = state.numIdxReads]_vars

\* sbitsNext has failed to read a page that the file holds
NextReadFailed ==
    op = "next" /\ end = "readfail" /\ ~cfg.readable /\ Len(file) >= 1

(***************************************************************************)
(* SpecWrap: callers that insert the keys 1, 2, 3, ... with data key + 100 *)
(* until the data pages have wrapped, on a plain engine of two pages, on   *)
(* engines with the index (a one-byte bitmap and three entries per index   *)
(* page; the 64-bit bitmap and two data pages), and on a plain engine of   *)
(* four pages with erase blocks of two.                                    *)
(***************************************************************************)
WrapConfigs ==
    { Config(0, 0, "Int64", 2, 1, 2,
             LongLoad(Load({1}, {100}, 1, 1..4, {Filter(NULL, NULL, NULL, NULL)}, FALSE))),
      Config(SBITS_USE_BMAP + SBITS_USE_INDEX, 1, "Int8Bucket", 6, 1, 4,
             LongLoad(Load({1}, {0}, 10, {1},
                           {Filter(NULL, NULL, <<20>>, <<40>>),
                            Filter(NULL, NULL, <<200>>, <<300>>)}, FALSE))),
      Config(SBITS_USE_BMAP + SBITS_USE_INDEX, 8, "Int64", 4, 1, 4,
             Load({1}, {100}, 1, {1}, {Filter(NULL, NULL, NULL, NULL)}, FALSE)),
      Config(0, 0, "Int64", 4, 2, 2,
             LongLoad(Load({1}, {100}, 1, 1..4, {Filter(NULL, NULL, NULL, NULL)}, FALSE))) }

InitWrap == \E c \in WrapConfigs : InitWith(c)

SpecWrap == InitWrap /\ [][NextAction]_vars

\* the entries an index page holds at offset base of mem: count of them, as far as
\* the page has room
IndexEntriesOf(y, mem, base) ==
    LET count == SBITS_GET_COUNT(mem, base)
        n == IF count > y.maxIdxRecordsPerPage THEN y.maxIdxRecordsPerPage ELSE count
    IN  [i \in 1..n |-> Load16(mem, base + SBITS_IDX_HEADER_SIZE + SizeofCount * (i - 1))]

\* the entries of the index pages f[j], f[j + 1], ... followed by those of tail
RECURSIVE IndexEntriesFrom(_, _, _, _)
IndexEntriesFrom(y, f, j, tail) ==
    IF j > Len(f) THEN tail
    ELSE IndexEntriesOf(y, f[j], 0) \o IndexEntriesFrom(y, f, j + 1, tail)

\* the index: the index pages written, then the index write buffer
IndexEntries ==
    IndexEntriesFrom(state, indexFile, 1,
                     IndexEntriesOf(state, buffer, state.pageSize * SBITS_INDEX_WRITE_BUFFER))

\* C11: with the index, as long as neither file has wrapped (every page written is
\* still there), the index holds exactly one entry for each data page written, in
\* the order of the data pages: entry j is the head of the bitmap of data page j
OneIndexEntryPerPage ==
    (state.indexFile /\ state.wrappedMemory = 0 /\ state.wrappedIdxMemory = 0)
        => IndexEntries = [j \in 1..Len(file) |-> Load16(file[j], SBITS_BITMAP_OFFSET)]

\* C18 as amended: the first endDataPage - startDataPage page writes of a fresh engine
\* do not wrap and go to consecutive slots; the next one sets wrappedMemory, goes to
\* slot startDataPage and advances firstDataPageId by eraseSizeInPages
FirstWrapAtEndDataPage ==
    [][state'.numWrites # state.numWrites =>
          IF state.numWrites < state.endDataPage - state.startDataPage
          THEN /\ state'.wrappedMemory = 0
               /\ state'.nextPageWriteId = state.startDataPage + state.numWrites + 1
          ELSE state.numWrites = state.endDataPage - state.startDataPage =>
                  /\ state.wrappedMemory = 0 /\ state'.wrappedMemory = 1
                  /\ state'.nextPageWriteId = state.startDataPage + 1
                  /\ state'.firstDataPageId
                        = state.firstDataPageId + state.eraseSizeInPages]_vars

\* the write that wraps has just been made on an engine with the index
WrappedWithIndex ==
    /\ state.indexFile /\ state.wrappedMemory = 1
    /\ state.numWrites = (state.endDataPage - state.startDataPage) + 1
    /\ state.numWrites < cfg.endAddress \div cfg.pageSize

\* C18: the first endAddress / pageSize - firstDataPage page writes of a fresh engine
\* do not wrap; the next one sets wrappedMemory, goes to slot startDataPage and
\* advances firstDataPageId by eraseSizeInPages
FirstWrapAtEndAddress ==
    [][state'.numWrites # state.numWrites =>
          IF state.numWrites < cfg.endAddress \div cfg.pageSize
          THEN state'.wrappedMemory = 0
          ELSE state.numWrites = cfg.endAddress \div cfg.pageSize =>
                  /\ state.wrappedMemory = 0 /\ state'.wrappedMemory = 1
                  /\ state'.nextPageWriteId = state.startDataPage + 1
                  /\ state'.firstDataPageId
                        = state.firstDataPageId + state.eraseSizeInPages]_vars

\* the keys of the records that are in the write buffer or in a live page
LiveKeys == {r[1] : r \in LiveRecords}

\* C19: after the wrap sbitsGet returns non-zero for every key that was put (the keys
\* are 1 .. lastKey) and whose record is in no live page
GetMissesReclaimed ==
    (op = "get" /\ state.wrappedMemory = 1 /\ key \in 1..lastKey /\ key \notin LiveKeys)
        => ret # 0 /\ end \in {"return", "readfail"}

\* C20: once the data pages have wrapped, the slot a page is written to lies at or
\* before erasedEndPage and in front of firstDataPage
WriteLandsOnReclaimedSlot ==
    [][(state'.numWrites # state.numWrites /\ state'.wrappedMemory = 1) =>
          /\ state'.nextPageWriteId - 1 <= state'.erasedEndPage
          /\ state'.nextPageWriteId - 1 < state'.firstDataPage]_vars

\* the physical slot of logical page L: firstDataPage + (L - firstDataPageId), wrapped
\* into the data pages (sbitsGet, lines 447-449)
SlotOf(y, L) ==
    y.startDataPage
      + (((y.firstDataPage + (L - y.firstDataPageId)) - y.startDataPage)
            % (y.endDataPage - y.startDataPage))

\* C21: every live logical page L, firstDataPageId <= L < nextPageId, is stored at
\* slot SlotOf(L): the page there carries L in its header
LogicalToPhysical ==
    \A L \in state.firstDataPageId..(state.nextPageId - 1) :
        /\ SlotOf(state, L) < Len(file)
        /\ Load32(file[SlotOf(state, L) + 1], 0) = L

\* C22: a data page is written to a slot of [startDataPage, endDataPage)
WriteStaysInRegion ==
    [][state'.numWrites # state.numWrites =>
          /\ state.startDataPage <= state'.nextPageWriteId - 1
          /\ state'.nextPageWriteId - 1 < state.endDataPage
          /\ Len(file') <= state.endDataPage]_vars

\* a page has been written to slot startDataPage after the last slot was filled
WrappedToStart ==
    /\ state.wrappedMemory = 1 /\ state.nextPageWriteId = state.startDataPage + 1
    /\ Len(file) = state.endDataPage

\* no entry of the index page at base of mem meets the query bitmap of the iterator
NoEntryMeets(i, y, mem, base) ==
    \A r \in 1..Len(IndexEntriesOf(y, mem, base)) :
        ~QueryMeets(i, mem, base + SBITS_IDX_HEADER_SIZE + SizeofCount * (r - 1))

\* the iterator runs through the index and its query bitmap meets no entry of the
\* index, the index pages written and the index write buffer
QueryMeetsNoEntry ==
    /\ state.indexFile /\ it.queryBitmap # NULL /\ it.lastIdxIterRec # 20000
    /\ \A j \in 1..Len(indexFile) : NoEntryMeets(it, state, indexFile[j], 0)
    /\ NoEntryMeets(it, state, buffer, state.pageSize * SBITS_INDEX_WRITE_BUFFER)

\* C23: with the index, the first sbitsNext of an iterator whose query bitmap meets
\* no index entry returns 0 and reads no data page: numReads and the data-read frame
\* stay as they were
PrunedIterationReadsNoPage ==
    [][(op' = "next" /\ calls.ended = 0 /\ QueryMeetsNoEntry) =>
          /\ ret' = 0 /\ end' \in {"return", "readfail"}
          /\ state'.numReads = state.numReads
          /\ state'.bufferedPageId = state.bufferedPageId]_vars

\* the effect of readPage(p) on the engine as it is: r is what it leaves and returns
ReadPageEffect(p, r) ==
    IF p = state.bufferedPageId
    THEN /\ r.ret = 0
         /\ r.e.state.bufferHits = state.bufferHits + 1
         /\ r.e.state.numReads = state.numReads
         /\ r.e.state.bufferedPageId = p
         /\ r.e.buffer = buffer /\ r.e.file = file
    ELSE r.ret = 0 =>
            /\ r.e.state.numReads = state.numReads + 1
            /\ r.e.state.bufferHits = state.bufferHits
            /\ r.e.state.bufferedPageId = p
            /\ PageAt(r.e.buffer, state.pageSize, state.pageSize) = file[p + 1]

\* C25: in every state the engine reaches, readPage of the buffered page counts a
\* buffer hit and reads nothing, and a successful readPage of another page counts
\* one read, no hit, and leaves that page buffered
ReadPageHitOrRead ==
    \A p \in -1..Len(file) : ReadPageEffect(p, readPage(Engine, p))

\* calls of sbitsGet or sbitsNext have read pages and have hit the buffered page
ReadAndHit ==
    state.numReads >= 2 /\ state.bufferHits >= 1 /\ state.wrappedMemory = 1

\* C28: in sequential mode (lastIdxIterRec = 20000) with no maxKey, whatever the state
\* of the data file, the calls of sbitsNext go through each live page once: no record
\* is handed back twice up to the first return of 0
SequentialVisitsEachPageOnce ==
    (/\ op = "next" /\ end = "return" /\ calls.ended = (IF ret = 0 THEN 1 ELSE 0)
     /\ it.lastIdxIterRec = 20000 /\ it.maxKey = NULL)
        => \A i \in DOMAIN yielded : \A j \in DOMAIN yielded :
              i < j => yielded[i] # yielded[j]

\* C29: in index-driven mode (lastIdxIterRec is not 20000) every call of sbitsNext
\* comes to an end, and the index cursor lastIdxIterPage goes forward only, but for
\* the one wrap of the iterator to the start of the index file
IndexIterationTerminates ==
    [][(op' = "next" /\ it.lastIdxIterRec # 20000) =>
          /\ end' # "hang"
          /\ \/ it'.lastIdxIterPage >= it.lastIdxIterPage
             \/ it.wrappedIdxMemory = 0 /\ it'.wrappedIdxMemory = 1]_vars

\* the data pages written that n calls of sbitsPut leave behind them
PagesAfterPuts(n) == (n - 1) \div state.maxRecordsPerPage

\* C30: after n >= 1 calls of sbitsPut and no sbitsFlush, floor((n - 1) /
\* maxRecordsPerPage) data pages have been written, every page of the file holds
\* maxRecordsPerPage records, and the write buffer holds the other records
PutWritesFullPagesOnly ==
    (calls.put >= 1 /\ calls.flush = 0) =>
        /\ state.numWrites = PagesAfterPuts(calls.put)
        /\ \A s \in 1..Len(file) : SBITS_GET_COUNT(file[s], 0) = state.maxRecordsPerPage
        /\ SBITS_GET_COUNT(buffer, 0) =
               calls.put - PagesAfterPuts(calls.put) * state.maxRecordsPerPage

\* the puts have filled the write buffer again after two pages written, with no flush
PutsWroteTwoPages ==
    /\ calls.flush = 0 /\ state.numWrites >= 2 /\ Len(file) >= 2
    /\ SBITS_GET_COUNT(buffer, 0) = state.maxRecordsPerPage

\* the minDataPageIdCovered field of the index page at offset base of mem
MinDataPageIdCovered(mem, base) == Load32(mem, base + 8)

\* C31: an index page carries in minDataPageIdCovered the logical id of the data page
\* of its first entry: when a call writes a data page (under the id nextPageId had)
\* and leaves its entry as the first one of the index write buffer, or of the index
\* page it writes, that page is stamped with that id
IndexPageStamped ==
    [][(state.indexFile /\ state'.nextPageId = state.nextPageId + 1) =>
          /\ SBITS_GET_COUNT(buffer', state.pageSize * SBITS_INDEX_WRITE_BUFFER) = 1
                => MinDataPageIdCovered(buffer', state.pageSize * SBITS_INDEX_WRITE_BUFFER)
                      = state.nextPageId
          /\ (/\ state'.numIdxWrites # state.numIdxWrites
              /\ SBITS_GET_COUNT(indexFile'[state'.nextIdxPageWriteId], 0) = 1)
                => MinDataPageIdCovered(indexFile'[state'.nextIdxPageWriteId], 0)
                      = state.nextPageId]_vars

\* C32: with the index, an index page has room for (pageSize - 16) / bitmapSize
\* entries, and the entry sbitsPut appends for the data page it wrote is the whole
\* bitmap of that page, bitmapSize bytes of it
IndexEntryIsWholeBitmap ==
    [][(state.indexFile /\ op' = "put" /\ state'.nextPageId = state.nextPageId + 1) =>
          /\ state.maxIdxRecordsPerPage = (state.pageSize - 16) \div state.bitmapSize
          /\ \A b \in 0..(state.bitmapSize - 1) :
                buffer'[state.pageSize * SBITS_INDEX_WRITE_BUFFER + SBITS_IDX_HEADER_SIZE
                        + state.bitmapSize
                          * (SBITS_GET_COUNT(buffer', state.pageSize * SBITS_INDEX_WRITE_BUFFER) - 1)
                        + b]
                  = file'[state'.nextPageWriteId][SBITS_BITMAP_OFFSET + b]]_vars

\* C33: in index-driven iteration the record sbitsNext hands back comes from the data
\* page of the index entry that led to it: with j = lastIdxIterRec - 1 the position
\* of the entry in the index page of the index read frame, the page in the data read
\* frame has the logical id minDataPageIdCovered + j and the bitmap the entry holds
IndexEntryLeadsToItsPage ==
    (op = "next" /\ ret = 1 /\ end = "return" /\ calls.ended = 0
     /\ it.lastIdxIterRec < 10000) =>
        /\ Load32(buffer, state.pageSize)
              = MinDataPageIdCovered(buffer, state.pageSize * SBITS_INDEX_READ_BUFFER)
                + (it.lastIdxIterRec - 1)
        /\ Load16(buffer, state.pageSize + SBITS_BITMAP_OFFSET)
              = Load16(buffer, state.pageSize * SBITS_INDEX_READ_BUFFER
                               + SBITS_IDX_HEADER_SIZE + SizeofCount * (it.lastIdxIterRec - 1))

\* C34: once sbitsNext has returned 0, a call of sbitsNext that follows it directly
\* (no put, flush, get or sbitsInitIterator between them) returns 0 too and hands
\* back no record
EndOfIterationSticky ==
    [][(op = "next" /\ ret = 0 /\ end = "return" /\ op' = "next") =>
          (ret' = 0 /\ yielded' = yielded)]_vars

(***************************************************************************)
(* SpecPure: a caller that asks sbitsGet for keys while it inserts, on a   *)
(* plain engine of two pages that wraps at the third page write.           *)
(***************************************************************************)
PureConfigs ==
    { Config(0, 0, "Int64", 2, 1, 2,
             LongLoad(Load({1}, {100}, 1, {1, 5}, {Filter(NULL, <<0>>, NULL, NULL)}, TRUE))) }

InitPure == \E c \in PureConfigs : InitWith(c)

SpecPure == InitPure /\ [][NextAction]_vars

\* the fields of the state that place the pages and steer the search
AllocatorFields ==
    {"nextPageId", "nextPageWriteId", "firstDataPage", "firstDataPageId",
     "erasedEndPage", "wrappedMemory", "minKey", "avgKeyDiff"}

\* C17: sbitsGet changes neither the stored pages, nor the write buffer, nor the
\* allocator fields, and a get that follows a get of the same key directly returns
\* the same status and the same data
GetIsPure ==
    [][op' = "get" =>
          /\ file' = file /\ indexFile' = indexFile
          /\ PageAt(buffer', 0, state.pageSize) = PageAt(buffer, 0, state.pageSize)
          /\ \A f \in AllocatorFields : state'[f] = state[f]
          /\ (op = "get" /\ key' = key) => (ret' = ret /\ data' = data)]_vars

\* C35: when bufferedPageId is the number of a page of the data file, the data read
\* frame holds what that page holds now
ReadCacheCoherent ==
    \A p \in 0..(Len(file) - 1) :
        state.bufferedPageId = p
            => PageAt(buffer, state.pageSize, state.pageSize) = file[p + 1]

\* the caller has put the record r: its keys so far are 1, 2, ..., lastKey, each with
\* one of the data values of the workload
WasPut(r) ==
    /\ 1 <= r[1] /\ r[1] <= lastKey
    /\ \E v \in cfg.load.dataVals : r[2] = cfg.load.dataStep * r[1] + v

\* C36: a record sbitsNext hands back was inserted by an earlier sbitsPut
YieldedWasPut ==
    (op = "next" /\ ret = 1 /\ end = "return") => WasPut(<<key, data>>)

\* what the next call of sbitsNext hands back: its status, and the record if it is 1
NextYield(r) == IF r.ret = 1 THEN <<r.ret, r.key, r.data>> ELSE <<r.ret>>

\* C37: a call of sbitsGet between two calls of sbitsNext does not change what the
\* iterator hands back next: the sbitsNext that follows the sbitsGet returns what it
\* would have returned in its place
GetKeepsIteration ==
    [][(op = "next" /\ ret = 1 /\ end = "return" /\ op' = "get" /\ end' = "return") =>
          NextYield(sbitsNext(Engine, it, key, data))
            = NextYield(sbitsNext(Engine', it, key, data))]_vars

\* C38: every call of sbitsGet comes to an end, and divides by no zero
GetTerminates ==
    op = "get" => end \notin {"divzero", "hang"}

\* C39: the write buffer and every page of the data file hold at most
\* maxRecordsPerPage records, and with the index the index write buffer and every
\* page of the index file hold at most maxIdxRecordsPerPage entries
CountsWithinCapacity ==
    /\ SBITS_GET_COUNT(buffer, 0) <= state.maxRecordsPerPage
    /\ \A s \in 1..Len(file) : SBITS_GET_COUNT(file[s], 0) <= state.maxRecordsPerPage
    /\ state.indexFile =>
          /\ SBITS_GET_COUNT(buffer, state.pageSize * SBITS_INDEX_WRITE_BUFFER)
                <= state.maxIdxRecordsPerPage
          /\ \A s \in 1..Len(indexFile) :
                SBITS_GET_COUNT(indexFile[s], 0) <= state.maxIdxRecordsPerPage

(***************************************************************************)
(* SpecRange: iterators over data ranges on an engine with the 64-bit      *)
(* bitmap.  The bitmap has one bit for the values up to 320 and one for    *)
(* each further step of 10, up to 950; the ends of the ranges are taken    *)
(* from the first, the second and the last byte of the bitmap.             *)
(***************************************************************************)
RangeEnds == {NULL, <<320>>, <<400>>, <<410>>, <<950>>}

RangeFilters ==
    { Filter(NULL, NULL, a, b) : a \in RangeEnds, b \in RangeEnds }
        \ { Filter(NULL, NULL, a, b) : a \in {<<400>>, <<410>>, <<950>>}, b \in {<<320>>} }

RangeConfigs ==
    { Config(SBITS_USE_BMAP, 8, "Int64", 2, 1, 2,
             Load({1}, {0}, 250, {1}, RangeFilters, FALSE)) }

InitRange == \E c \in RangeConfigs : InitWith(c)

SpecRange == InitRange /\ [][NextAction]_vars

\* data values of every bucket of the 64-bit bitmap
DataSamples == {310 + 10 * k : k \in 0..65}

\* every bit of the bitmap bm is a bit of the query bitmap
InQueryBitmap(bm, query) == \A b \in 0..7 : AndByte(bm[b], query[b]) = bm[b]

\* C27: the query bitmap sbitsInitIterator builds with the 64-bit encoder for a data
\* range has the bit of every data value of the range
QueryBitmapCoversRange ==
    (op = "initIterator" /\ it.queryBitmap # NULL) =>
        \A d \in DataSamples :
            (/\ it.minData = NULL \/ d >= it.minData[1]
             /\ it.maxData = NULL \/ d <= it.maxData[1])
                => InQueryBitmap(updateBitmap(state, d, ZeroBitmap, 0), it.queryBitmap[1])

(***************************************************************************)
(* SpecStamp: an engine with the index and five data pages, whose caller   *)
(* may flush before it inserts: the index page that sbitsPut then fills    *)
(* and writes was started by sbitsFlush.  The iterator asks for a data     *)
(* range that every record is in.                                          *)
(***************************************************************************)
StampConfigs ==
    { Config(SBITS_USE_BMAP + SBITS_USE_INDEX, 1, "Int8Bucket", 7, 1, 4,
             LongLoad(Load({1}, {0}, 10, {1}, {Filter(NULL, NULL, <<0>>, <<90>>)}, FALSE))) }

InitStamp == \E c \in StampConfigs : InitWith(c)

SpecStamp == InitStamp /\ [][NextAction]_vars

(***************************************************************************)
(* SpecShare: a caller that asks sbitsGet for a key while an iterator is   *)
(* running: both read through the one data read frame of the engine.       *)
(***************************************************************************)
ShareConfigs ==
    { Config(0, 0, "Int64", 4, 1, 2,
             Load({1}, {100}, 1, {1, 3}, {Filter(NULL, NULL, NULL, NULL)}, TRUE)) }

InitShare == \E c \in ShareConfigs : InitWith(c)

SpecShare == InitShare /\ [][NextAction]_vars

====
